---- MODULE Spec2Model ----
(***************************************************************************)
(* Model of the tweet search / verification scripts:                       *)
(*   - update_live_json (verify_tweets.py), the live JSON store, called    *)
(*     from one or from several execution contexts;                        *)
(*   - save_tweets_to_file / deduplicate_tweets (tweet_*_search.py);       *)
(*   - verify_and_save_tweets (verify_tweets.py), the verification loop.   *)
(*   - fetch_tweets and main() of the search scripts, request by request,  *)
(*     and main() of verify_tweets.py from its start-up checks;            *)
(*   - a second verification run over the same input; an interruption of   *)
(*     update_live_json; generate_search_combinations.                     *)
(* Strings the code inspects are sequences of one-character strings.       *)
(***************************************************************************)
EXTENDS Integers, Sequences, FiniteSets, TLC

\* ---------------------------------------------------------------- bounds
NumIds == 3        \* tweet identifiers 1..NumIds
MaxCalls == 3      \* update_live_json calls started in the store specifications
MaxQueries == 2    \* size of the query space of the search loop
MaxRaw == 3        \* tweets returned by the search collaborator over one run
MaxInput == 2      \* items of the input file given to verify_tweets.py
MaxBody == 1       \* items of a response body in the step-by-step search run
MaxList == 22      \* items of a response body in the single search call
MaxRows == 3       \* rows of the Excel file given to remove_duplicate_content
MaxLocs == 2       \* length of the location list given to the query generator
MaxKw == 3         \* length of the keyword list given to the query generator

\* ------------------------------------------------------ program constants
MinTextLen == 20   \* len(text.strip()) < 20 is skipped
MinFireScore == 5  \* fire_score >= 5 is saved
StatusOK == 200    \* response.status_code == 200
RateLimited == 429 \* response.status_code == 429
RateLimitSleep == 60   \* time.sleep(60) of handle_rate_limit
max_results == 20  \* fetch_tweets(query, max_results=20)

Ids == 1..NumIds
NoId == 0          \* a tweet whose 'id' key is missing (tweet.get('id') is None)
BadItem == 0 - 1   \* a list item that is not a dict (tweet.get raises)
NoQuery == 0       \* a tweet that carries no 'search_query' key
Running == 0 - 1   \* exitStatus of a process that has not ended
Threads == {"A", "B"}

VARIABLES
    file,       \* the live JSON file: [kind, data]
    active,     \* the execution contexts that call update_live_json
    pc,         \* per context: position inside update_live_json
    entry,      \* per context: the entry argument of the call in progress
    data,       \* per context: the local list 'data'
    before,     \* per context: the file as the call in progress read it
    held,       \* the lock objects currently held
    hist,       \* per context: the completed calls, oldest first
    ncalls,     \* calls started so far
    ppc,        \* position of the search script, then of the verification script
    queriesRun, \* total_queries of the search loop
    raw,        \* every tweet handed to save_tweets_to_file, in order
    outFile,    \* the output file of the search script: [kind, data]
    tweets,     \* the list loaded by verify_and_save_tweets
    idx,        \* loop index of verify_and_save_tweets (1-based)
    s1log,      \* the calls of verify_fire_incident, oldest first
    s2log,      \* the calls of get_fire_analysis, oldest first
    excel,      \* the rows of the Excel file
    verified_count,
    cfg,        \* what the process was started with: script, keys, input file
    exitStatus, \* the exit status of the process, Running until it ends
    call,       \* the fetch_tweets call in progress, or the last one
    run,        \* 1 in the first verification run, 2 in a run started after it
    prevFile,   \* the live JSON file that the earlier run left
    locations,  \* US_STATES, the location list of the query generator
    keywords,   \* DAMAGE_KEYWORDS, as loaded from the keyword source
    combinations, \* what generate_search_combinations returned, with its tags
    answer,     \* what the service did on one get_fire_analysis request
    analysis,   \* what get_fire_analysis made of it
    kwSource,   \* damage_keywords.json as load_damage_keywords finds it
    sheet,      \* the Excel file handed to remove_duplicate_content
    similar,    \* the pairs of contents whose SequenceMatcher ratio reaches the threshold
    df,         \* the rows that remove_duplicate_content read
    dedupRet    \* what remove_duplicate_content returned

storeVars == <<file, active, pc, entry, data, before, held, hist, ncalls>>
pipeVars == <<ppc, queriesRun, raw, outFile, tweets, idx, s1log, s2log, excel,
              verified_count>>
envVars == <<cfg, exitStatus, call, run, prevFile>>
queryVars == <<locations, keywords, combinations>>
parseVars == <<answer, analysis>>
sourceVars == <<kwSource>>
dedupVars == <<sheet, similar, df, dedupRet>>
vars == <<storeVars, pipeVars, envVars, queryVars, parseVars, sourceVars,
          dedupVars>>

\* ------------------------------------------------------------ sequences
RECURSIVE SeqIds(_)
\* [item.get('tweet_id') for item in data]
SeqIds(s) == IF s = <<>> THEN <<>> ELSE <<Head(s).tweet_id>> \o SeqIds(Tail(s))

Range(s) == {s[i] : i \in 1..Len(s)}

IsPrefix(s, t) == Len(s) <= Len(t) /\ \A i \in 1..Len(s) : s[i] = t[i]

Count(s, id) == Cardinality({i \in 1..Len(s) : s[i].tweet_id = id})

NoDuplicateIds(s) == \A i, j \in 1..Len(s) : s[i].tweet_id = s[j].tweet_id => i = j

\* ------------------------------------------------------------- the texts
RECURSIVE Repeat(_, _)
Repeat(c, n) == IF n = 0 THEN <<>> ELSE <<c>> \o Repeat(c, n - 1)

\* The text of each tweet of the model. A tweet's text is fixed by its
\* identifier (identifiers are stable on the search collaborator's side).
TextOf(id) ==
    CASE id % 4 = 1 -> Repeat("x", MinTextLen)
      [] id % 4 = 2 -> <<" ">> \o Repeat("x", MinTextLen - 1) \o <<" ">>
      [] id % 4 = 3 -> Repeat("x", MinTextLen + 1)
      [] OTHER      -> <<" ", " ">>

YesVerdict == <<"y", "e", "s">>

\* ------------------------------------------------- the files on the disk
\* kind: "absent" (no file), "empty" (truncated by open(..., 'w'), nothing
\* written yet), "corrupt" (bytes that json.load rejects), "json" (a list).
Absent  == [kind |-> "absent",  data |-> <<>>]
Empty   == [kind |-> "empty",   data |-> <<>>]
Corrupt == [kind |-> "corrupt", data |-> <<>>]
Json(d) == [kind |-> "json",    data |-> d]

FileIds(f) == Range(SeqIds(f.data))

\* ------------------------------------------------------ update_live_json
\* the dict built by verify_and_save_tweets and passed as 'entry'
Entry(id, score, verdict) ==
    [tweet_id |-> id, fire_related_score |-> score,
     verification_result |-> verdict]

\* lock = threading.Lock(): every call creates its own lock object
LockOf(t) == <<"lock", t>>

\* a read that forgets the existing collection
ReadExisting_Fresh(f) == [ok |-> TRUE, data |-> <<>>]

\* if os.path.exists(path): data = json.load(f)  else: data = []
\* ok = FALSE when json.load raises (the except branch is taken)
ReadExisting(f) ==
    CASE f.kind = "absent" -> [ok |-> TRUE, data |-> <<>>]
      [] f.kind = "json"   -> [ok |-> TRUE, data |-> f.data]
      [] OTHER             -> [ok |-> FALSE, data |-> <<>>]

\* a membership check that never finds the identifier
IsNewId_Always(d, e) == TRUE

\* tweet_id not in existing_ids
IsNewId(d, e) == e.tweet_id \notin Range(SeqIds(d))

\* data.append(entry)
AppendEntry(d, e) == Append(d, e)

\* what the bytes of the file are after json.dump and close: the dumped
\* list, or, when another writer put bytes in the file after this handle
\* truncated it and these bytes may reach beyond the dumped ones, possibly
\* the dumped list followed by their tail, which json.load rejects
DumpOutcomes(f, d) ==
    IF f.kind = "corrupt" \/ (f.kind = "json" /\ ~IsPrefix(f.data, d))
    THEN {Json(d), Corrupt}
    ELSE {Json(d)}

\* the record of a completed call; the function has no return statement
\* before: the file as the call read it; after: the file as it left it
CallRecord(t, log, bef, after) ==
    [id |-> entry[t].tweet_id, log |-> log, ret |-> "None",
     before |-> bef, after |-> after]

NoEntry == Entry(NoId, 0, <<>>)

\* the body of a response: kind "none" (not looked at), "notjson"
\* (response.json() raises), "nokey" (an object without 'tweets'), "list"
NoBody == [kind |-> "none", tweets |-> <<>>]

\* no fetch_tweets call yet: the statuses received (0 for an exception), the
\* seconds slept in handle_rate_limit, the last body, the returned list
NoCall == [statuses |-> <<>>, slept |-> 0, body |-> NoBody, result |-> <<>>,
           returned |-> FALSE]

\* a search run followed by a verification run, credentials present
NoCfg == [script |-> "pipeline", twitterKey |-> TRUE, openaiKey |-> TRUE,
          faults |-> FALSE, input |-> Absent]

\* the query generator is not part of the run
QueriesNotBuilt == locations = <<>> /\ keywords = <<>> /\ combinations = <<>>

\* no get_fire_analysis call is being looked at on its own
NoAnswer == [raises |-> FALSE, content |-> <<>>]
NoAnalysis == [raised |-> FALSE, score |-> 0 - 1, state |-> <<>>, county |-> <<>>]
NotAnalysing == answer = NoAnswer /\ analysis = NoAnalysis

\* the keyword file is not looked at: the keyword list is taken as loaded
NoSource == [kind |-> "unused", keywords |-> <<>>]
NotLoading == kwSource = NoSource

\* remove_duplicate_content is not part of the run
NoSheet == [kind |-> "absent", rows |-> <<>>]
NotDeduplicating ==
    sheet = NoSheet /\ similar = {} /\ df = <<>> /\ dedupRet = "not called"

\* the contexts of act are about to call update_live_json on a destination
\* that is in one of the given states
InitStoreOn(act, files) ==
    /\ ppc = IF act = {} THEN "search" ELSE "off"
    /\ file \in files
    /\ active = act
    /\ pc = [t \in Threads |-> "idle"]
    /\ entry = [t \in Threads |-> NoEntry]
    /\ data = [t \in Threads |-> <<>>]
    /\ before = [t \in Threads |-> Absent]
    /\ held = {}
    /\ hist = [t \in Threads |-> <<>>]
    /\ ncalls = 0
    /\ queriesRun = 0
    /\ raw = <<>>
    /\ outFile = Absent
    /\ tweets = <<>>
    /\ idx = 1
    /\ s1log = <<>>
    /\ s2log = <<>>
    /\ excel = <<>>
    /\ verified_count = 0
    /\ cfg = NoCfg
    /\ exitStatus = Running
    /\ call = NoCall
    /\ run = 1
    /\ prevFile = Absent
    /\ QueriesNotBuilt
    /\ NotAnalysing
    /\ NotLoading
    /\ NotDeduplicating

InitStore(act) == InitStoreOn(act, {Absent})

\* the exit of the 'with lock' block and the return
Return(t, log, bef, after) ==
    /\ held' = held \ {LockOf(t)}
    /\ hist' = [hist EXCEPT ![t] = Append(@, CallRecord(t, log, bef, after))]
    /\ pc' = [pc EXCEPT ![t] = "idle"]
    /\ entry' = [entry EXCEPT ![t] = NoEntry]
    /\ data' = [data EXCEPT ![t] = <<>>]
    /\ before' = [before EXCEPT ![t] = Absent]

\* update_live_json(path, entry) is called; lock = threading.Lock(); with lock:
Enter(t, id) ==
    /\ t \in active
    /\ pc[t] = "idle"
    /\ ncalls < MaxCalls
    /\ LockOf(t) \notin held
    /\ held' = held \cup {LockOf(t)}
    /\ entry' = [entry EXCEPT ![t] = Entry(id, MinFireScore, YesVerdict)]
    /\ pc' = [pc EXCEPT ![t] = "read"]
    /\ ncalls' = ncalls + 1
    /\ UNCHANGED <<file, active, data, before, hist, pipeVars, envVars, queryVars, parseVars, sourceVars, dedupVars>>

\* the read of the file and the membership check
ReadCheck(t) ==
    /\ pc[t] = "read"
    /\ LET r == ReadExisting(file) IN
         IF ~r.ok
         THEN /\ Return(t, "Error", file, file)
              /\ UNCHANGED <<file, active, ncalls>>
         ELSE IF IsNewId(r.data, entry[t])
         THEN /\ data' = [data EXCEPT ![t] = AppendEntry(r.data, entry[t])]
              /\ before' = [before EXCEPT ![t] = file]
              /\ pc' = [pc EXCEPT ![t] = "open"]
              /\ UNCHANGED <<file, active, entry, held, hist, ncalls>>
         ELSE /\ Return(t, "SKIP", file, file)
              /\ UNCHANGED <<file, active, ncalls>>
    /\ UNCHANGED <<pipeVars, envVars, queryVars, parseVars, sourceVars, dedupVars>>

\* open(live_json_path, 'w'): the file is created or truncated
OpenWrite(t) ==
    /\ pc[t] = "open"
    /\ file' = Empty
    /\ pc' = [pc EXCEPT ![t] = "dump"]
    /\ UNCHANGED <<active, entry, data, before, held, hist, ncalls, pipeVars, envVars, queryVars, parseVars, sourceVars, dedupVars>>

\* json.dump(data, f) and the close of the file, then the [OK] line
Dump(t) ==
    /\ pc[t] = "dump"
    /\ \E f \in DumpOutcomes(file, data[t]) :
         /\ file' = f
         /\ Return(t, "OK", before[t], f)
    /\ UNCHANGED <<active, ncalls, pipeVars, envVars, queryVars, parseVars, sourceVars, dedupVars>>

NextStore ==
    \/ \E t \in Threads, id \in Ids : Enter(t, id)
    \/ \E t \in Threads : ReadCheck(t)
    \/ \E t \in Threads : OpenWrite(t)
    \/ \E t \in Threads : Dump(t)

\* two execution contexts calling update_live_json on one destination
SpecStore == InitStore(Threads) /\ [][NextStore]_vars

\* one execution context calling update_live_json
SpecSeq == InitStore({"A"}) /\ [][NextStore]_vars

\* the process is stopped from outside (a kill, a power loss) while context
\* t is anywhere in or between its calls: it takes no further step and the
\* file stays as the last completed system call left it
Interrupt(t) ==
    /\ t \in active
    /\ pc[t] # "killed"
    /\ pc' = [pc EXCEPT ![t] = "killed"]
    /\ UNCHANGED <<file, active, entry, data, before, held, hist, ncalls,
                   pipeVars, envVars, queryVars, parseVars, sourceVars, dedupVars>>

NextKill ==
    \/ NextStore
    \/ \E t \in Threads : Interrupt(t)

\* one execution context calling update_live_json on a destination that does
\* not exist or holds bytes that do not parse
SpecAppend == InitStoreOn({"A"}, {Absent, Corrupt}) /\ [][NextStore]_vars

\* one execution context calling update_live_json, stopped at any point
SpecKill == InitStore({"A"}) /\ [][NextKill]_vars

InCritical(t) == pc[t] \in {"read", "open", "dump"}
AllIdle == \A t \in Threads : pc[t] = "idle"

\* =========================================== the search script's output
\* a tweet as the search scripts hold it: its id (NoId when the key is
\* missing) and the search_query that fetch_tweets attached to it
Tweet(id, q) == [id |-> id, search_query |-> q]

\* every list the search collaborator may return for query q, given that
\* n more tweets fit in the run
Batches(q, n) ==
    UNION {[1..k -> {Tweet(id, q) : id \in Ids \cup {NoId}}] : k \in 0..n}

RECURSIVE DedupKeepAll(_, _)
\* a loop that appends every tweet that has an id
DedupKeepAll(ts, seen) ==
    IF ts = <<>> THEN <<>>
    ELSE IF Head(ts).id # NoId
         THEN <<Head(ts)>> \o DedupKeepAll(Tail(ts), seen)
         ELSE DedupKeepAll(Tail(ts), seen)

RECURSIVE DedupLoop(_, _)
\* the loop of deduplicate_tweets: seen_ids and unique_tweets
DedupLoop(ts, seen) ==
    IF ts = <<>> THEN <<>>
    ELSE IF Head(ts).id # NoId /\ Head(ts).id \notin seen
         THEN <<Head(ts)>> \o DedupLoop(Tail(ts), seen \cup {Head(ts).id})
         ELSE DedupLoop(Tail(ts), seen)

\* a deduplication that never looks at seen_ids
deduplicate_tweets_NoSeen(ts) == DedupKeepAll(ts, {})

\* deduplicate_tweets(tweets)
deduplicate_tweets(ts) == DedupLoop(ts, {})

\* existing tweets put after the new ones
Combine_NewFirst(existing, new) == new \o existing

\* all_tweets = existing_tweets + tweets
Combine(existing, new) == existing \o new

\* a save that never reads the file it is about to overwrite
LoadExisting_Nothing(f) == <<>>

\* existing_tweets of save_tweets_to_file: [] unless the file exists and parses
LoadExisting(f) == IF f.kind = "json" THEN f.data ELSE <<>>

\* the file that save_tweets_to_file leaves
save_tweets_to_file(f, new) ==
    Json(deduplicate_tweets(Combine(LoadExisting(f), new)))

\* one iteration of the query loop of main(): fetch, save when the result is
\* not empty, count the query
SearchQuery(batch) ==
    /\ ppc = "search"
    /\ queriesRun < MaxQueries
    /\ raw' = raw \o batch
    /\ outFile' = IF batch # <<>> THEN save_tweets_to_file(outFile, batch) ELSE outFile
    /\ queriesRun' = queriesRun + 1
    /\ UNCHANGED <<ppc, tweets, idx, s1log, s2log, excel, verified_count, storeVars, envVars, queryVars, parseVars, sourceVars, dedupVars>>

\* ====================================================== the classifier
Lower(c) ==
    CASE c = "Y" -> "y" [] c = "E" -> "e" [] c = "S" -> "s"
      [] c = "N" -> "n" [] c = "O" -> "o" [] OTHER -> c

LowerStr(s) == [i \in 1..Len(s) |-> Lower(s[i])]

StartsWith(s, p) == Len(s) >= Len(p) /\ \A i \in 1..Len(p) : s[i] = p[i]

\* the characters str.strip() and the pattern \s take for white space
Whitespace == {" ", "\n", "\t"}

RECURSIVE LStrip(_)
LStrip(s) == IF s # <<>> /\ Head(s) \in Whitespace THEN LStrip(Tail(s)) ELSE s

RECURSIVE RStrip(_)
RStrip(s) ==
    IF s # <<>> /\ s[Len(s)] \in Whitespace THEN RStrip(SubSeq(s, 1, Len(s) - 1)) ELSE s

\* str.strip()
Strip(s) == RStrip(LStrip(s))

\* what the classification service may do on a stage-1 request: fail, or
\* answer with some text
Stage1Answers ==
    {<<"y", "e", "s">>, <<" ", "Y", "E", "S", ".", " ">>, <<"n", "o">>,
     <<"m", "a", "y", "b", "e">>, <<>>}
Stage1Responses ==
    {[raises |-> TRUE, content |-> <<>>]} \cup
    {[raises |-> FALSE, content |-> a] : a \in Stage1Answers}

\* a gate that answers yes when the call fails
verify_fire_incident_FailOpen(resp) ==
    IF resp.raises THEN YesVerdict ELSE Strip(resp.content)

\* verify_fire_incident: the stripped answer, "no" when the call raises
verify_fire_incident(resp) ==
    IF resp.raises THEN <<"n", "o">> ELSE Strip(resp.content)

\* anything but a "no" counts as affirmative
IsAffirmative_NotNo(v) == ~StartsWith(LowerStr(v), <<"n", "o">>)

\* verification_result.lower().startswith("yes")
IsAffirmative(v) == StartsWith(LowerStr(v), <<"y", "e", "s">>)

DigitValue(c) ==
    CASE c = "0" -> 0 [] c = "1" -> 1 [] c = "2" -> 2 [] c = "3" -> 3
      [] c = "4" -> 4 [] c = "5" -> 5 [] c = "6" -> 6 [] c = "7" -> 7
      [] c = "8" -> 8 [] c = "9" -> 9

RECURSIVE ToInt(_)
\* int(score_match.group(1))
ToInt(ds) ==
    IF ds = <<>> THEN 0 ELSE 10 * ToInt(SubSeq(ds, 1, Len(ds) - 1)) + DigitValue(ds[Len(ds)])

\* what the classification service may do on a stage-2 request: fail, or
\* answer; digits is what Score:\s*(\d+) captures, <<>> when it does not match
Stage2Responses ==
    {[raises |-> TRUE, digits |-> <<>>]} \cup
    {[raises |-> FALSE, digits |-> d] : d \in {<<>>, <<"4">>, <<"5">>, <<"1", "1">>}}

\* the score of get_fire_analysis
get_fire_analysis(resp) ==
    IF resp.raises THEN 0
    ELSE IF resp.digits = <<>> THEN 0 ELSE ToInt(resp.digits)

\* a threshold that leaves the minimum itself out
ScoreAccepted_Strict(score) == score > MinFireScore

\* fire_score >= 5
ScoreAccepted(score) == score >= MinFireScore

\* ====================================================== the verification
\* tweet.get('id', f"tweet_{i}"): a tweet without id gets one from its index
TweetId(tweet, i) == IF tweet.id = NoId THEN 0 - i ELSE tweet.id

\* the text of a tweet that has no 'id' key: it has a text like any other
NoIdText == Repeat("x", MinTextLen + 2)

\* tweet.get('text', '')
TweetText(tweet) == IF tweet.id = NoId THEN NoIdText ELSE TextOf(tweet.id)

\* a minimum that the text has to exceed
TooShort_Inclusive(text) == Strip(text) = <<>> \/ Len(Strip(text)) <= MinTextLen

\* not text.strip()  or  len(text.strip()) < 20
TooShort(text) == Strip(text) = <<>> \/ Len(Strip(text)) < MinTextLen

\* an append that writes nothing
update_live_json_Dropped(f, e) == f

\* update_live_json run by a single context, from its read to its return
update_live_json(f, e) ==
    LET r == ReadExisting(f) IN
      IF r.ok /\ IsNewId(r.data, e) THEN Json(AppendEntry(r.data, e)) ELSE f

\* update_excel_file: the existing rows and the new one
update_excel_file(rows, e) == Append(rows, e)

\* the search loop is over; verify_and_save_tweets loads the search output
LoadTweets ==
    /\ ppc = "search"
    /\ queriesRun = MaxQueries
    /\ IF outFile.kind = "json"
       THEN tweets' = outFile.data /\ ppc' = "next"
       ELSE tweets' = <<>> /\ ppc' = "failed"
    /\ UNCHANGED <<queriesRun, raw, outFile, idx, s1log, s2log, excel,
                   verified_count, storeVars, envVars, queryVars, parseVars, sourceVars, dedupVars>>

\* the tweet has no text or too little: continue
SkipShort ==
    /\ ppc = "next"
    /\ idx <= Len(tweets)
    /\ tweets[idx].id # BadItem
    /\ TooShort(TweetText(tweets[idx]))
    /\ idx' = idx + 1
    /\ UNCHANGED <<ppc, queriesRun, raw, outFile, tweets, s1log, s2log, excel,
                   verified_count, storeVars, envVars, queryVars, parseVars, sourceVars, dedupVars>>

\* stage 1: verify_fire_incident and the test of its verdict
Stage1(resp) ==
    /\ ppc = "next"
    /\ idx <= Len(tweets)
    /\ tweets[idx].id # BadItem
    /\ ~TooShort(TweetText(tweets[idx]))
    /\ LET v == verify_fire_incident(resp) IN
         /\ s1log' = Append(s1log, [i |-> idx, id |-> TweetId(tweets[idx], idx),
                                    raised |-> resp.raises, verdict |-> v])
         /\ IF IsAffirmative(v)
            THEN ppc' = "stage2" /\ idx' = idx
            ELSE ppc' = "next" /\ idx' = idx + 1
    /\ UNCHANGED <<queriesRun, raw, outFile, tweets, s2log, excel,
                   verified_count, storeVars, envVars, queryVars, parseVars, sourceVars, dedupVars>>

\* stage 2: get_fire_analysis and the test of the score
Stage2(resp) ==
    /\ ppc = "stage2"
    /\ LET score == get_fire_analysis(resp) IN
         /\ s2log' = Append(s2log, [i |-> idx, id |-> TweetId(tweets[idx], idx),
                                    score |-> score])
         /\ IF ScoreAccepted(score)
            THEN ppc' = "persist" /\ idx' = idx
            ELSE ppc' = "next" /\ idx' = idx + 1
    /\ UNCHANGED <<queriesRun, raw, outFile, tweets, s1log, excel,
                   verified_count, storeVars, envVars, queryVars, parseVars, sourceVars, dedupVars>>

\* what the disk may do while the entry is saved: nothing, make the
\* open(..., 'w') of update_live_json raise, make its json.dump raise, or
\* make update_excel_file raise; each function catches and prints
PersistFaults(c) == IF c.faults THEN {"none", "open", "dump", "excel"} ELSE {"none"}

\* update_live_json when its write raises: the file is left as it was
\* (open raised) or truncated with part of the bytes (json.dump raised)
update_live_json_failing(f, e, flt) ==
    LET r == ReadExisting(f) IN
      IF r.ok /\ IsNewId(r.data, e) /\ flt = "dump" THEN Corrupt ELSE f

\* the entry is built and saved: live JSON, Excel, verified_count
Persist ==
    /\ ppc = "persist"
    /\ \E flt \in PersistFaults(cfg) :
         LET e == Entry(TweetId(tweets[idx], idx), s2log[Len(s2log)].score,
                        s1log[Len(s1log)].verdict) IN
           /\ file' = IF flt \in {"open", "dump"}
                      THEN update_live_json_failing(file, e, flt)
                      ELSE update_live_json(file, e)
           /\ excel' = IF flt = "excel" THEN excel ELSE update_excel_file(excel, e)
    /\ verified_count' = verified_count + 1
    /\ ppc' = "next"
    /\ idx' = idx + 1
    /\ UNCHANGED <<queriesRun, raw, outFile, tweets, s1log, s2log,
                   active, pc, entry, data, before, held, hist, ncalls>>
    /\ UNCHANGED <<envVars, queryVars, parseVars, sourceVars, dedupVars>>

\* the loop is over: the summary is printed and the counts are returned
Complete ==
    /\ ppc = "next"
    /\ idx > Len(tweets)
    /\ ppc' = "done"
    /\ UNCHANGED <<queriesRun, raw, outFile, tweets, idx, s1log, s2log, excel,
                   verified_count, storeVars, envVars, queryVars, parseVars, sourceVars, dedupVars>>

Init == InitStore({})

Next ==
    \/ \E b \in Batches(queriesRun + 1, MaxRaw - Len(raw)) : SearchQuery(b)
    \/ LoadTweets
    \/ SkipShort
    \/ \E r \in Stage1Responses : Stage1(r)
    \/ \E r \in Stage2Responses : Stage2(r)
    \/ Persist
    \/ Complete

\* a search run followed by a verification run over its output
Spec == Init /\ [][Next]_vars

\* ================================================ the search script, by step
\* the module-level credential check, then main(): the query loop with
\* fetch_tweets taken request by request, then the final summary
SearchScripts == {"fire", "peril"}

HttpReply(status, body) == [kind |-> "http", status |-> status, body |-> body]

\* the bodies a 200 response may carry for n more tweets: bytes that are not
\* JSON, an object without 'tweets', or an object whose 'tweets' is a list
\* of items, each a tweet (with or without id) or something that is no dict
Bodies(n) ==
    {[kind |-> "notjson", tweets |-> <<>>], [kind |-> "nokey", tweets |-> <<>>]} \cup
    {[kind |-> "list", tweets |-> l] :
        l \in UNION {[1..k -> {Tweet(id, NoQuery) : id \in Ids \cup {NoId, BadItem}}] :
                       k \in 0..n}}

\* what requests.get may do: raise, never return (no timeout is passed),
\* or return a response
Replies(n) ==
    {[kind |-> "exception", status |-> 0, body |-> NoBody],
     [kind |-> "never", status |-> 0, body |-> NoBody]} \cup
    {HttpReply(st, NoBody) : st \in {RateLimited, 500, 204}} \cup
    {HttpReply(StatusOK, b) : b \in Bodies(n)}

HasBadItem(ts) == \E i \in 1..Len(ts) : ts[i].id = BadItem

\* a fetch that returns the whole list
Truncate_All(ts, n) == ts

\* tweets[:max_results]
Truncate(ts, n) == SubSeq(ts, 1, IF Len(ts) < n THEN Len(ts) ELSE n)

\* lines 133-136 (fire) and 146-152 (peril) on a 200 response: raised when
\* the except branch is reached. tweet['search_query'] = query raises on an
\* item that is no dict; the fire script does not touch the items
ParseBody(script, body, q) ==
    CASE body.kind = "list" /\ script = "peril" /\ HasBadItem(body.tweets) ->
             [raised |-> TRUE, tweets |-> <<>>]
      [] body.kind = "list" /\ script = "peril" ->
             [raised |-> FALSE,
              tweets |-> Truncate([i \in 1..Len(body.tweets) |->
                                     Tweet(body.tweets[i].id, q)], max_results)]
      [] body.kind = "list" ->
             [raised |-> FALSE, tweets |-> Truncate(body.tweets, max_results)]
      [] body.kind = "nokey" -> [raised |-> FALSE, tweets |-> <<>>]
      [] OTHER -> [raised |-> TRUE, tweets |-> <<>>]

\* a fetch that drops what the retried request returned
FetchResult_FirstOnly(script, reply, q, retried) ==
    IF reply.kind = "http" /\ reply.status = StatusOK /\ ~retried
    THEN ParseBody(script, reply.body, q).tweets
    ELSE <<>>

\* what fetch_tweets returns once 'response' is final (or requests.get raised)
FetchResult(script, reply, q, retried) ==
    IF reply.kind = "http" /\ reply.status = StatusOK
    THEN ParseBody(script, reply.body, q).tweets
    ELSE <<>>

\* if not TWITTER_API_KEY: ... exit(1), run when the script is loaded
StartSearch ==
    /\ ppc = "start"
    /\ cfg.script \in SearchScripts
    /\ IF cfg.twitterKey
       THEN ppc' = "loop" /\ exitStatus' = exitStatus
       ELSE ppc' = "exited" /\ exitStatus' = 1
    /\ UNCHANGED <<queriesRun, raw, outFile, tweets, idx, s1log, s2log, excel,
                   verified_count, storeVars, cfg, call, run, prevFile, queryVars, parseVars, sourceVars, dedupVars>>

\* the loop takes the next query: fetch_tweets sends its first request
StartQuery ==
    /\ ppc = "loop"
    /\ queriesRun < MaxQueries
    /\ ppc' = "req1"
    /\ call' = NoCall
    /\ UNCHANGED <<queriesRun, raw, outFile, tweets, idx, s1log, s2log, excel,
                   verified_count, storeVars, cfg, exitStatus, run, prevFile, queryVars, parseVars, sourceVars, dedupVars>>

\* requests.get ends (or never does). A first 429 leads to handle_rate_limit;
\* anything else makes fetch_tweets return, and main() goes on: a non-empty
\* result is saved (deduplicate_tweets raises on an item that is no dict,
\* and nothing in main() catches it), the query is counted. The record
\* 'raw' of the pipeline specification is not kept here.
Respond(reply) ==
    /\ ppc \in {"req1", "req2"}
    /\ LET q == queriesRun + 1
           seen == [call EXCEPT !.statuses = Append(@, reply.status),
                                !.body = reply.body]
           res == FetchResult(cfg.script, reply, q, ppc = "req2")
       IN
         CASE reply.kind = "never" ->
                  /\ ppc' = "hung"
                  /\ UNCHANGED <<call, queriesRun, raw, outFile, exitStatus>>
           [] reply.kind = "http" /\ reply.status = RateLimited /\ ppc = "req1" ->
                  /\ ppc' = "sleep"
                  /\ call' = seen
                  /\ UNCHANGED <<queriesRun, raw, outFile, exitStatus>>
           [] OTHER ->
                  /\ call' = [seen EXCEPT !.result = res, !.returned = TRUE]
                  /\ IF res = <<>>
                     THEN /\ ppc' = "loop"
                          /\ queriesRun' = queriesRun + 1
                          /\ UNCHANGED <<raw, outFile, exitStatus>>
                     ELSE IF HasBadItem(res)
                     THEN /\ ppc' = "crashed"
                          /\ exitStatus' = 1
                          /\ UNCHANGED <<queriesRun, raw, outFile>>
                     ELSE /\ ppc' = "loop"
                          /\ queriesRun' = queriesRun + 1
                          /\ outFile' = save_tweets_to_file(outFile, res)
                          /\ UNCHANGED <<raw, exitStatus>>
    /\ UNCHANGED <<tweets, idx, s1log, s2log, excel, verified_count, storeVars,
                   cfg, run, prevFile, queryVars, parseVars, sourceVars, dedupVars>>

\* a retry that is sent at once, without the sleep
Cooldown_NoSleep ==
    /\ ppc = "sleep"
    /\ call' = call
    /\ ppc' = "req2"
    /\ UNCHANGED <<queriesRun, raw, outFile, tweets, idx, s1log, s2log, excel,
                   verified_count, storeVars, cfg, exitStatus, run, prevFile, queryVars, parseVars, sourceVars, dedupVars>>

\* handle_rate_limit: time.sleep(60), then the second request is sent
Cooldown ==
    /\ ppc = "sleep"
    /\ call' = [call EXCEPT !.slept = @ + RateLimitSleep]
    /\ ppc' = "req2"
    /\ UNCHANGED <<queriesRun, raw, outFile, tweets, idx, s1log, s2log, excel,
                   verified_count, storeVars, cfg, exitStatus, run, prevFile, queryVars, parseVars, sourceVars, dedupVars>>

\* the loops are over: the final summary is printed and main() returns
Summary ==
    /\ ppc = "loop"
    /\ queriesRun = MaxQueries
    /\ ppc' = "summary"
    /\ exitStatus' = 0
    /\ UNCHANGED <<queriesRun, raw, outFile, tweets, idx, s1log, s2log, excel,
                   verified_count, storeVars, cfg, call, run, prevFile, queryVars, parseVars, sourceVars, dedupVars>>

\* ============================================ the verification script alone
VerifyRun == cfg.script = "verify"

\* the per-tweet 'except Exception: ... continue' propagating instead
AfterItemError_Propagate == "crashed"

\* where the loop goes when the body of an iteration raises
AfterItemError == "next"

\* main() of verify_tweets.py: the input file, the credential, then
\* verify_and_save_tweets loads the file; when the load fails it returns
\* None, which main() cannot unpack
StartVerify ==
    /\ ppc = "start"
    /\ cfg.script = "verify"
    /\ CASE cfg.input.kind = "absent" -> ppc' = "exited" /\ exitStatus' = 0 /\ tweets' = tweets
         [] ~cfg.openaiKey -> ppc' = "exited" /\ exitStatus' = 0 /\ tweets' = tweets
         [] cfg.input.kind # "json" -> ppc' = "crashed" /\ exitStatus' = 1 /\ tweets' = tweets
         [] OTHER -> ppc' = "next" /\ exitStatus' = exitStatus /\ tweets' = cfg.input.data
    /\ UNCHANGED <<queriesRun, raw, outFile, idx, s1log, s2log, excel,
                   verified_count, storeVars, cfg, call, run, prevFile, queryVars, parseVars, sourceVars, dedupVars>>

\* tweet.get raises on an item that is no dict: the except branch, continue
SkipMalformed ==
    /\ ppc = "next"
    /\ idx <= Len(tweets)
    /\ tweets[idx].id = BadItem
    /\ ppc' = AfterItemError
    /\ idx' = idx + 1
    /\ UNCHANGED <<queriesRun, raw, outFile, tweets, s1log, s2log, excel,
                   verified_count, storeVars, envVars, queryVars, parseVars, sourceVars, dedupVars>>

\* the items an input file may hold
Candidates == {Tweet(id, NoQuery) : id \in Ids \cup {NoId, BadItem}}

\* the input files: none, bytes that json.load rejects, or a list
InputFiles ==
    {Absent, Corrupt} \cup
    {Json(l) : l \in UNION {[1..k -> Candidates] : k \in 0..MaxInput}}

\* how a script may be started
MainConfigs ==
    {[script |-> sc, twitterKey |-> k, openaiKey |-> TRUE, faults |-> FALSE,
      input |-> Absent] : sc \in SearchScripts, k \in BOOLEAN} \cup
    {[script |-> "verify", twitterKey |-> TRUE, openaiKey |-> k, faults |-> TRUE,
      input |-> f] : k \in BOOLEAN, f \in InputFiles}

\* the state in which a script is started with one of the given configurations
InitWith(configs) ==
    /\ cfg \in configs
    /\ ppc = "start"
    /\ exitStatus = Running
    /\ call = NoCall
    /\ run = 1
    /\ prevFile = Absent
    /\ QueriesNotBuilt
    /\ NotAnalysing
    /\ NotLoading
    /\ NotDeduplicating
    /\ file = Absent
    /\ active = {}
    /\ pc = [t \in Threads |-> "idle"]
    /\ entry = [t \in Threads |-> NoEntry]
    /\ data = [t \in Threads |-> <<>>]
    /\ before = [t \in Threads |-> Absent]
    /\ held = {}
    /\ hist = [t \in Threads |-> <<>>]
    /\ ncalls = 0
    /\ queriesRun = 0
    /\ raw = <<>>
    /\ outFile = Absent
    /\ tweets = <<>>
    /\ idx = 1
    /\ s1log = <<>>
    /\ s2log = <<>>
    /\ excel = <<>>
    /\ verified_count = 0

InitMain == InitWith(MainConfigs)

NextMain ==
    \/ StartSearch
    \/ StartQuery
    \/ \E r \in Replies(MaxBody) : Respond(r)
    \/ Cooldown
    \/ Summary
    \/ StartVerify
    \/ SkipMalformed
    \/ SkipShort
    \/ \E r \in Stage1Responses : Stage1(r)
    \/ \E r \in Stage2Responses : Stage2(r)
    \/ Persist
    \/ Complete

\* one run of a search script or of the verification script; the process
\* is scheduled as long as it has a step to take
SpecMain == InitMain /\ [][NextMain]_vars /\ WF_vars(NextMain)

\* ------------------------------------------- one search call, long answers
\* a search script started with its credential
FetchConfigs ==
    {[script |-> sc, twitterKey |-> TRUE, openaiKey |-> TRUE, faults |-> FALSE,
      input |-> Absent] : sc \in SearchScripts}

\* the lists of up to MaxList tweets that a 200 response may carry, newest
\* first or oldest first
LongLists ==
    UNION {{[i \in 1..n |-> Tweet(i, NoQuery)],
            [i \in 1..n |-> Tweet(n + 1 - i, NoQuery)]} : n \in 0..MaxList}

\* what requests.get may return to the call: an exception, a rate limit, a
\* server error, or a 200 response with one of the lists
FetchReplies ==
    {[kind |-> "exception", status |-> 0, body |-> NoBody]} \cup
    {HttpReply(st, NoBody) : st \in {RateLimited, 500}} \cup
    {HttpReply(StatusOK, [kind |-> "list", tweets |-> l]) : l \in LongLists}

InitFetch == InitWith(FetchConfigs)

\* the first query of the loop
FirstQuery == queriesRun = 0 /\ StartQuery

NextFetch ==
    \/ StartSearch
    \/ FirstQuery
    \/ \E reply \in FetchReplies : Respond(reply)
    \/ Cooldown

\* a search script up to the end of its first fetch_tweets call
SpecFetch == InitFetch /\ [][NextFetch]_vars

\* ------------------------------------------- the verification script, twice
\* the script is started again over the same input file, after the earlier
\* run has ended or has been stopped: a new process, whose dt_str names a
\* new live JSON file and a new Excel file; the earlier file stays on disk
Restart ==
    /\ VerifyRun
    /\ run = 1
    /\ ppc \in {"next", "stage2", "persist", "done"}
    /\ run' = 2
    /\ prevFile' = file
    /\ file' = Absent
    /\ excel' = <<>>
    /\ tweets' = <<>>
    /\ idx' = 1
    /\ s1log' = <<>>
    /\ s2log' = <<>>
    /\ verified_count' = 0
    /\ ppc' = "start"
    /\ UNCHANGED <<queriesRun, raw, outFile, active, pc, entry, data, before,
                   held, hist, ncalls, cfg, exitStatus, call, queryVars, parseVars, sourceVars, dedupVars>>

\* started with the credential, over an input file that holds tweets
RerunConfigs ==
    {[script |-> "verify", twitterKey |-> TRUE, openaiKey |-> TRUE, faults |-> FALSE,
      input |-> Json(l)] :
        l \in UNION {[1..k -> {Tweet(id, NoQuery) : id \in Ids \cup {NoId}}] :
                       k \in 1..MaxInput}}

InitRerun == InitWith(RerunConfigs)

NextRerun ==
    \/ StartVerify
    \/ SkipShort
    \/ \E r \in Stage1Responses : Stage1(r)
    \/ \E r \in Stage2Responses : Stage2(r)
    \/ Persist
    \/ Complete
    \/ Restart

\* a verification run and a second one over the same input file
SpecRerun == InitRerun /\ [][NextRerun]_vars

\* ============================================ the analysis of a stage-2 answer
Letters ==
    {
     "A", "B", "C", "D", "E", "F", "G", "H", "I", "J", "K", "L", "M", "N",
     "O", "P", "Q", "R", "S", "T", "U", "V", "W", "X", "Y", "Z", "a", "b",
     "c", "d", "e", "f", "g", "h", "i", "j", "k", "l", "m", "n", "o", "p",
     "q", "r", "s", "t", "u", "v", "w", "x", "y", "z"
    }
Digits == {"0", "1", "2", "3", "4", "5", "6", "7", "8", "9"}
NL == "\n"
NA == <<"N", "/", "A">>
CountyWord == <<"C", "o", "u", "n", "t", "y">>

MinOf(S) == CHOOSE k \in S : \A m \in S : k <= m
MaxOf(S) == CHOOSE k \in S : \A m \in S : k >= m

\* the character classes of the three patterns: \d, [A-Za-z\s], [^\n], and \s
InClass(c, cls) ==
    CASE cls = "digit"           -> c \in Digits
      [] cls = "letter_or_space" -> c \in Letters \cup Whitespace
      [] cls = "not_newline"     -> c # NL
      [] cls = "space"           -> c \in Whitespace

\* the literal lit stands at position i of s
MatchAt(s, i, lit) ==
    /\ i >= 1
    /\ i + Len(lit) - 1 <= Len(s)
    /\ \A k \in 1..Len(lit) : s[i + k - 1] = lit[k]

\* 'lit' in s
Contains(s, lit) == \E i \in 1..Len(s) : MatchAt(s, i, lit)

\* where the run of class characters that starts at j ends: the first position
\* from j on that is not in the class
RunEnd(s, j, cls) ==
    LET stops == {k \in j..Len(s) : ~InClass(s[k], cls)}
    IN  IF stops = {} THEN Len(s) + 1 ELSE MinOf(stops)

NoMatch == [found |-> FALSE, group |-> <<>>]

\* re.search(label \s* (class+ | alt), s): the leftmost label after which the
\* group matches. \s* is greedy and gives characters back one at a time until
\* the group can start; the group takes the class run first, the literal alt
\* (<<>> when the pattern has none) second
Search(s, label, cls, alt) ==
    LET GroupAt(k) ==
            IF k <= Len(s) /\ InClass(s[k], cls)
            THEN SubSeq(s, k, RunEnd(s, k, cls) - 1)
            ELSE IF alt # <<>> /\ MatchAt(s, k, alt) THEN alt ELSE <<>>
        Starts(i) ==
            {k \in (i + Len(label))..RunEnd(s, i + Len(label), "space") :
                GroupAt(k) # <<>>}
        hits == {i \in 1..Len(s) : MatchAt(s, i, label) /\ Starts(i) # {}}
    IN  IF hits = {} THEN NoMatch
        ELSE [found |-> TRUE, group |-> GroupAt(MaxOf(Starts(MinOf(hits))))]

\* re.search(r'Score:\s*(\d+)', answer)
score_match(a) == Search(a, <<"S", "c", "o", "r", "e", ":">>, "digit", <<>>)

\* re.search(r'State:\s*([A-Za-z\s]+|N/A)', answer)
state_match(a) == Search(a, <<"S", "t", "a", "t", "e", ":">>, "letter_or_space", NA)

\* re.search(r'County:\s*([^\n]+)', answer)
county_match(a) == Search(a, <<"C", "o", "u", "n", "t", "y", ":">>, "not_newline", <<>>)

RECURSIVE CollapseSpace(_)
\* re.sub(r'\s+', ' ', s)
CollapseSpace(s) ==
    IF s = <<>> THEN <<>>
    ELSE IF Head(s) \in Whitespace
         THEN <<" ">> \o CollapseSpace(SubSeq(s, RunEnd(s, 1, "space"), Len(s)))
         ELSE <<Head(s)>> \o CollapseSpace(Tail(s))

RECURSIVE Split(_, _)
\* s.split(sep)
Split(s, sep) ==
    LET hits == {i \in 1..Len(s) : MatchAt(s, i, sep)}
    IN  IF hits = {} THEN <<s>>
        ELSE <<SubSeq(s, 1, MinOf(hits) - 1)>>
             \o Split(SubSeq(s, MinOf(hits) + Len(sep), Len(s)), sep)

valid_states ==
    {
      <<"A", "l", "a", "b", "a", "m", "a">>,
      <<"A", "l", "a", "s", "k", "a">>,
      <<"A", "r", "i", "z", "o", "n", "a">>,
      <<"A", "r", "k", "a", "n", "s", "a", "s">>,
      <<"C", "a", "l", "i", "f", "o", "r", "n", "i", "a">>,
      <<"C", "o", "l", "o", "r", "a", "d", "o">>,
      <<"C", "o", "n", "n", "e", "c", "t", "i", "c", "u", "t">>,
      <<"D", "e", "l", "a", "w", "a", "r", "e">>,
      <<"F", "l", "o", "r", "i", "d", "a">>,
      <<"G", "e", "o", "r", "g", "i", "a">>,
      <<"H", "a", "w", "a", "i", "i">>,
      <<"I", "d", "a", "h", "o">>,
      <<"I", "l", "l", "i", "n", "o", "i", "s">>,
      <<"I", "n", "d", "i", "a", "n", "a">>,
      <<"I", "o", "w", "a">>,
      <<"K", "a", "n", "s", "a", "s">>,
      <<"K", "e", "n", "t", "u", "c", "k", "y">>,
      <<"L", "o", "u", "i", "s", "i", "a", "n", "a">>,
      <<"M", "a", "i", "n", "e">>,
      <<"M", "a", "r", "y", "l", "a", "n", "d">>,
      <<"M", "a", "s", "s", "a", "c", "h", "u", "s", "e", "t", "t", "s">>,
      <<"M", "i", "c", "h", "i", "g", "a", "n">>,
      <<"M", "i", "n", "n", "e", "s", "o", "t", "a">>,
      <<"M", "i", "s", "s", "i", "s", "s", "i", "p", "p", "i">>,
      <<"M", "i", "s", "s", "o", "u", "r", "i">>,
      <<"M", "o", "n", "t", "a", "n", "a">>,
      <<"N", "e", "b", "r", "a", "s", "k", "a">>,
      <<"N", "e", "v", "a", "d", "a">>,
      <<"N", "e", "w", " ", "H", "a", "m", "p", "s", "h", "i", "r", "e">>,
      <<"N", "e", "w", " ", "J", "e", "r", "s", "e", "y">>,
      <<"N", "e", "w", " ", "M", "e", "x", "i", "c", "o">>,
      <<"N", "e", "w", " ", "Y", "o", "r", "k">>,
      <<"N", "o", "r", "t", "h", " ", "C", "a", "r", "o", "l", "i", "n", "a">>,
      <<"N", "o", "r", "t", "h", " ", "D", "a", "k", "o", "t", "a">>,
      <<"O", "h", "i", "o">>,
      <<"O", "k", "l", "a", "h", "o", "m", "a">>,
      <<"O", "r", "e", "g", "o", "n">>,
      <<"P", "e", "n", "n", "s", "y", "l", "v", "a", "n", "i", "a">>,
      <<"R", "h", "o", "d", "e", " ", "I", "s", "l", "a", "n", "d">>,
      <<"S", "o", "u", "t", "h", " ", "C", "a", "r", "o", "l", "i", "n", "a">>,
      <<"S", "o", "u", "t", "h", " ", "D", "a", "k", "o", "t", "a">>,
      <<"T", "e", "n", "n", "e", "s", "s", "e", "e">>,
      <<"T", "e", "x", "a", "s">>,
      <<"U", "t", "a", "h">>,
      <<"V", "e", "r", "m", "o", "n", "t">>,
      <<"V", "i", "r", "g", "i", "n", "i", "a">>,
      <<"W", "a", "s", "h", "i", "n", "g", "t", "o", "n">>,
      <<"W", "e", "s", "t", " ", "V", "i", "r", "g", "i", "n", "i", "a">>,
      <<"W", "i", "s", "c", "o", "n", "s", "i", "n">>,
      <<"W", "y", "o", "m", "i", "n", "g">>
    }

\* a parse that returns whatever the State line said
ValidateState_Any(state) == state

\* if state not in valid_states and state != 'N/A': state = 'N/A'
ValidateState(state) ==
    IF state \notin valid_states /\ state # NA THEN NA ELSE state

\* if 'County' in state and state != 'N/A': the text before the first
\* 'County', when there is some
StateBeforeCounty(state) ==
    IF Contains(state, CountyWord) /\ state # NA
    THEN LET state_parts == Split(state, CountyWord)
         IN  IF Strip(state_parts[1]) # <<>> THEN Strip(state_parts[1]) ELSE state
    ELSE state

\* if county == 'N/A' and 'County' in state and state != 'N/A': the text
\* after the first 'County', else the text before it
CountyFromState(county, state) ==
    IF county = NA /\ Contains(state, CountyWord) /\ state # NA
    THEN LET county_parts == Split(state, CountyWord)
         IN  IF Len(county_parts) > 1 /\ Strip(county_parts[2]) # <<>>
             THEN Strip(county_parts[2])
             ELSE Strip(county_parts[1])
    ELSE county

\* return 0, "N/A", "N/A" of the except branch
FailureResult == [raised |-> FALSE, score |-> 0, state |-> NA, county |-> NA]

\* the try block of get_fire_analysis from the answer on
ParseAnswer(content) ==
    LET a == Strip(content)
        score == IF score_match(a).found THEN ToInt(score_match(a).group) ELSE 0
        state0 == IF state_match(a).found THEN Strip(state_match(a).group) ELSE NA
        county0 == IF county_match(a).found THEN Strip(county_match(a).group) ELSE NA
        state1 == StateBeforeCounty(Strip(CollapseSpace(state0)))
        county1 == CountyFromState(Strip(CollapseSpace(county0)), state1)
    IN  [raised |-> FALSE, score |-> score, state |-> ValidateState(state1),
         county |-> county1]

\* a function whose except branch is missing
FireAnalysis_Propagate(resp) ==
    IF resp.raises
    THEN [raised |-> TRUE, score |-> 0, state |-> NA, county |-> NA]
    ELSE ParseAnswer(resp.content)

\* get_fire_analysis: (score, state, county)
FireAnalysis(resp) ==
    IF resp.raises THEN FailureResult ELSE ParseAnswer(resp.content)

\* the Score line of an answer: absent, in range, above the range, not a number,
\* a fraction
ScoreLines ==
    {
      \* ""
      <<>>,
      \* "Score: 7\n"
      <<"S", "c", "o", "r", "e", ":", " ", "7", "\n">>,
      \* "Score: 11\n"
      <<"S", "c", "o", "r", "e", ":", " ", "1", "1", "\n">>,
      \* "Score: high\n"
      <<"S", "c", "o", "r", "e", ":", " ", "h", "i", "g", "h", "\n">>,
      \* "Score:8/10\n"
      <<"S", "c", "o", "r", "e", ":", "8", "/", "1", "0", "\n">>
    }

\* the State line of an answer
StateLines ==
    {
      \* ""
      <<>>,
      \* "State: Texas\n"
      <<"S", "t", "a", "t", "e", ":", " ", "T", "e", "x", "a", "s", "\n">>,
      \* "State: New York\n"
      <<"S", "t", "a", "t", "e", ":", " ", "N", "e", "w", " ", "Y", "o", "r", "k", "\n">>,
      \* "State: Narnia\n"
      <<"S", "t", "a", "t", "e", ":", " ", "N", "a", "r", "n", "i", "a", "\n">>,
      \* "State: N/A\n"
      <<"S", "t", "a", "t", "e", ":", " ", "N", "/", "A", "\n">>,
      \* "State: texas\n"
      <<"S", "t", "a", "t", "e", ":", " ", "t", "e", "x", "a", "s", "\n">>,
      \* "State: California, USA\n"
      <<"S", "t", "a", "t", "e", ":", " ", "C", "a", "l", "i", "f", "o", "r", "n", "i", "a", ",", " ", "U", "S", "A", "\n">>,
      \* "State: Harris County Texas\n"
      <<"S", "t", "a", "t", "e", ":", " ", "H", "a", "r", "r", "i", "s", " ", "C", "o", "u", "n", "t", "y", " ", "T", "e", "x", "a", "s", "\n">>,
      \* "State: Arizona County Pima\n"
      <<"S", "t", "a", "t", "e", ":", " ", "A", "r", "i", "z", "o", "n", "a", " ", "C", "o", "u", "n", "t", "y", " ", "P", "i", "m", "a", "\n">>,
      \* "State: County Durham\n"
      <<"S", "t", "a", "t", "e", ":", " ", "C", "o", "u", "n", "t", "y", " ", "D", "u", "r", "h", "a", "m", "\n">>,
      \* "State: 5\n"
      <<"S", "t", "a", "t", "e", ":", " ", "5", "\n">>
    }

\* the County line of an answer
CountyLines ==
    {
      \* ""
      <<>>,
      \* "County: Harris"
      <<"C", "o", "u", "n", "t", "y", ":", " ", "H", "a", "r", "r", "i", "s">>,
      \* "County: N/A"
      <<"C", "o", "u", "n", "t", "y", ":", " ", "N", "/", "A">>,
      \* "County: Los Angeles County"
      <<"C", "o", "u", "n", "t", "y", ":", " ", "L", "o", "s", " ", "A", "n", "g", "e", "l", "e", "s", " ", "C", "o", "u", "n", "t", "y">>
    }

\* what the service may do on the request: fail, or answer with the lines it
\* chose to write, in the order of the prompt, with white space around them
AnalysisResponses ==
    {[raises |-> TRUE, content |-> <<>>]} \cup
    {[raises |-> FALSE, content |-> <<" ">> \o sc \o st \o co \o <<NL>>] :
        sc \in ScoreLines, st \in StateLines, co \in CountyLines}

InitParse ==
    /\ answer \in AnalysisResponses
    /\ analysis = NoAnalysis
    /\ QueriesNotBuilt
    /\ NotLoading
    /\ NotDeduplicating
    /\ ppc = "analyse"
    /\ cfg = NoCfg
    /\ exitStatus = Running
    /\ call = NoCall
    /\ run = 1
    /\ prevFile = Absent
    /\ file = Absent
    /\ active = {}
    /\ pc = [t \in Threads |-> "idle"]
    /\ entry = [t \in Threads |-> NoEntry]
    /\ data = [t \in Threads |-> <<>>]
    /\ before = [t \in Threads |-> Absent]
    /\ held = {}
    /\ hist = [t \in Threads |-> <<>>]
    /\ ncalls = 0
    /\ queriesRun = 0
    /\ raw = <<>>
    /\ outFile = Absent
    /\ tweets = <<>>
    /\ idx = 1
    /\ s1log = <<>>
    /\ s2log = <<>>
    /\ excel = <<>>
    /\ verified_count = 0

\* fire_score, state, county = get_fire_analysis(text)
Analyse ==
    /\ ppc = "analyse"
    /\ analysis' = FireAnalysis(answer)
    /\ ppc' = "analysed"
    /\ UNCHANGED <<queriesRun, raw, outFile, tweets, idx, s1log, s2log, excel,
                   verified_count, storeVars, envVars, queryVars, answer, sourceVars, dedupVars>>

NextParse == Analyse

\* get_fire_analysis applied to one response of the service
SpecParse == InitParse /\ [][NextParse]_vars

\* =============================================== the spreadsheet's duplicates
\* the values of the 'content' column: texts, and the empty cell that
\* pandas reads as NaN
ContentPool == {"a", "b", "c"}
NaN == "NaN"
Cells == ContentPool \cup {NaN}

\* the ordered pairs of different texts; 'similar' holds those whose
\* SequenceMatcher ratio reaches the threshold
TextPairs == {p \in ContentPool \X ContentPool : p[1] # p[2]}

\* is_similar(text1, text2, threshold)
is_similar(text1, text2, rel) ==
    IF text1 = NaN \/ text2 = NaN THEN FALSE
    ELSE text1 = text2 \/ <<text1, text2>> \in rel

\* a loop in which removed rows are still compared with the later ones
IsSkipped_Never(i, drop) == FALSE

\* if i in rows_to_drop: continue
IsSkipped(i, drop) == i \in drop

RECURSIVE MarkFrom(_, _, _, _)
\* the loops over i and j from row i on: rows_to_drop at their end
MarkFrom(rows, rel, i, drop) ==
    IF i > Len(rows) THEN drop
    ELSE IF IsSkipped(i, drop) THEN MarkFrom(rows, rel, i + 1, drop)
    ELSE MarkFrom(rows, rel, i + 1,
                  drop \cup {j \in (i + 1)..Len(rows) :
                               /\ j \notin drop
                               /\ is_similar(rows[i].content, rows[j].content, rel)})

rows_to_drop(rows, rel) == MarkFrom(rows, rel, 1, {})

\* df.drop(df.index[rows_to_drop]).reset_index(drop=True)
DropRows(rows, drop) ==
    LET Stays(i) == i \notin drop
        left == SelectSeq([i \in 1..Len(rows) |-> i], Stays)
    IN [k \in 1..Len(left) |-> rows[left[k]]]

\* remove_duplicate_content(excel_path): the file afterwards, the rows read,
\* and the value returned. read_excel raises on a file that is not there;
\* one row or none returns at once; the file is rewritten only when some
\* row is dropped
remove_duplicate_content(f, rel) ==
    IF f.kind # "rows" THEN [sheet |-> f, df |-> <<>>, ret |-> "False"]
    ELSE IF Len(f.rows) <= 1 THEN [sheet |-> f, df |-> f.rows, ret |-> "None"]
    ELSE IF rows_to_drop(f.rows, rel) = {}
         THEN [sheet |-> f, df |-> f.rows, ret |-> "True"]
         ELSE [sheet |-> [kind |-> "rows",
                          rows |-> DropRows(f.rows, rows_to_drop(f.rows, rel))],
               df |-> f.rows, ret |-> "True"]

\* the Excel files: none, or up to MaxRows rows, each with the number of its
\* line and its content
Sheets ==
    {NoSheet} \cup
    {[kind |-> "rows", rows |-> [i \in 1..Len(c) |-> [row |-> i, content |-> c[i]]]] :
        c \in UNION {[1..n -> Cells] : n \in 0..MaxRows}}

InitDedup ==
    /\ similar \in SUBSET TextPairs
    /\ sheet \in Sheets
    /\ df = <<>>
    /\ dedupRet = "not called"
    /\ QueriesNotBuilt
    /\ NotAnalysing
    /\ NotLoading
    /\ ppc = "dedup"
    /\ cfg = NoCfg
    /\ exitStatus = Running
    /\ call = NoCall
    /\ run = 1
    /\ prevFile = Absent
    /\ file = Absent
    /\ active = {}
    /\ pc = [t \in Threads |-> "idle"]
    /\ entry = [t \in Threads |-> NoEntry]
    /\ data = [t \in Threads |-> <<>>]
    /\ before = [t \in Threads |-> Absent]
    /\ held = {}
    /\ hist = [t \in Threads |-> <<>>]
    /\ ncalls = 0
    /\ queriesRun = 0
    /\ raw = <<>>
    /\ outFile = Absent
    /\ tweets = <<>>
    /\ idx = 1
    /\ s1log = <<>>
    /\ s2log = <<>>
    /\ excel = <<>>
    /\ verified_count = 0

\* success = remove_duplicate_content(excel_path, similarity_threshold)
RemoveDuplicates ==
    /\ ppc = "dedup"
    /\ LET r == remove_duplicate_content(sheet, similar) IN
         /\ sheet' = r.sheet
         /\ df' = r.df
         /\ dedupRet' = r.ret
    /\ ppc' = "deduped"
    /\ UNCHANGED <<queriesRun, raw, outFile, tweets, idx, s1log, s2log, excel,
                   verified_count, storeVars, envVars, queryVars, parseVars,
                   sourceVars, similar>>

NextDedup == RemoveDuplicates

\* remove_duplicate_content applied to one Excel file
SpecDedup == InitDedup /\ [][NextDedup]_vars

\* ======================================================= the store claims
\* every completed call, of any context
AllCalls == UNION {Range(hist[t]) : t \in Threads}
NumCalls == Len(hist["A"]) + Len(hist["B"])
DistinctCallIds == Cardinality({c.id : c \in AllCalls}) = NumCalls

\* C1: when the contexts have appended records of distinct identifiers and
\* every call has returned, the file holds every appended identifier.
C1_NoLostRecord ==
    (AllIdle /\ DistinctCallIds) =>
        /\ \A c \in AllCalls : c.id \in FileIds(file)
        /\ Len(file.data) = NumCalls

\* C2: no two contexts are at the same time between the read of the file
\* and the end of the write to it.
C2_MutualExclusion ==
    \A s, t \in Threads : (s # t) => ~(InCritical(s) /\ InCritical(t))

\* C3: in every reachable state, whatever the interleaving and whatever
\* identifiers were appended, no two records of the file share a tweet_id.
C3_UniqueIds == NoDuplicateIds(file.data)

\* two contexts appended the same identifier, both found it new and both wrote
C3_Witness ==
    /\ file.kind = "json"
    /\ Len(file.data) >= 2
    /\ \E a \in Range(hist["A"]), b \in Range(hist["B"]) :
         a.id = b.id /\ a.log = "OK" /\ b.log = "OK"

ValidStore(f) == f.kind \in {"absent", "json"}

\* two consecutive calls of one context with the same identifier, the
\* identifier being new to a valid store at the first call
TwiceInSequence(k) ==
    /\ k + 1 <= Len(hist["A"])
    /\ hist["A"][k].id = hist["A"][k + 1].id
    /\ ValidStore(hist["A"][k].before)
    /\ hist["A"][k].id \notin FileIds(hist["A"][k].before)

\* C4 as stated: appending the same identifier twice in sequence leaves one
\* record with it, the calls return true then false, and the second call
\* leaves the file unchanged.
C4_TrueThenFalse ==
    \A k \in 1..Len(hist["A"]) : TwiceInSequence(k) =>
        /\ Count(hist["A"][k + 1].after.data, hist["A"][k].id) = 1
        /\ hist["A"][k].ret = "True"
        /\ hist["A"][k + 1].ret = "False"
        /\ hist["A"][k + 1].after = hist["A"][k + 1].before

\* C4 amended: appending the same identifier twice in sequence leaves one
\* record with it; the first call writes it and the second skips it as a
\* duplicate, which the calls only log ([OK], [SKIP]) as both return None;
\* the second call leaves the file unchanged.
C4_WrittenThenSkipped ==
    \A k \in 1..Len(hist["A"]) : TwiceInSequence(k) =>
        /\ Count(hist["A"][k + 1].after.data, hist["A"][k].id) = 1
        /\ hist["A"][k].log = "OK" /\ hist["A"][k].ret = "None"
        /\ hist["A"][k + 1].log = "SKIP" /\ hist["A"][k + 1].ret = "None"
        /\ hist["A"][k + 1].after = hist["A"][k + 1].before

\* the second of two such calls has returned, on a store of two records
C4_Witness ==
    \E k \in 1..Len(hist["A"]) :
        TwiceInSequence(k) /\ Len(hist["A"][k + 1].after.data) = 2

\* C5: a call never removes, modifies or reorders the records that were in
\* the file: the records it read are still there, in place, when it returns,
\* a record it writes comes after all of them, a skipped duplicate leaves the
\* file as it was, and what a call wrote is still in place once every call
\* has returned.
C5_AppendOnly ==
    /\ \A c \in AllCalls : ValidStore(c.before) =>
          /\ IsPrefix(c.before.data, c.after.data)
          /\ (c.log = "OK") =>
                 /\ Len(c.after.data) = Len(c.before.data) + 1
                 /\ c.after.data[Len(c.after.data)].tweet_id = c.id
          /\ (c.log = "SKIP") => (c.after = c.before)
    /\ AllIdle => \A c \in AllCalls : (c.log = "OK") => IsPrefix(c.after.data, file.data)

\* ==================================================== the pipeline claims
\* the verdict begins with "yes" / with "no", in any letter case
BeginsYes(v) ==
    Len(v) >= 3 /\ v[1] \in {"y", "Y"} /\ v[2] \in {"e", "E"} /\ v[3] \in {"s", "S"}
BeginsNo(v) == Len(v) >= 2 /\ v[1] \in {"n", "N"} /\ v[2] \in {"o", "O"}

\* candidate k of the input has a record in the live JSON file
Persisted(k) == \E r \in Range(file.data) : r.tweet_id = TweetId(tweets[k], k)

\* C6: a candidate the loop is done with has a record in the store if and
\* only if its stage-1 verdict begins with "yes" in any letter case and its
\* stage-2 score is at least 5 (5 is accepted, 4 is rejected).
C6_AcceptanceIff ==
    \A k \in 1..(idx - 1) :
        Persisted(k) <=>
            /\ \E a \in Range(s1log) : a.i = k /\ BeginsYes(a.verdict)
            /\ \E b \in Range(s2log) : b.i = k /\ b.score >= MinFireScore

\* a run is over in which a score of exactly 5 under an upper-case verdict
\* was persisted and a score of 4 was not
C6_Witness ==
    /\ ppc = "done"
    /\ \E b \in Range(s2log) : b.score = MinFireScore /\ Persisted(b.i)
                               /\ \E a \in Range(s1log) : a.i = b.i /\ a.verdict[1] = "Y"
    /\ \E b \in Range(s2log) : b.score = MinFireScore - 1 /\ ~Persisted(b.i)

\* C7: stage 2 is called for a candidate only after stage 1 returned a
\* verdict beginning with "yes" for that candidate; a candidate whose verdict
\* is "no" has no stage-2 call and no record.
C7_Stage2OnlyAfterYes ==
    /\ \A b \in Range(s2log) :
           \E a \in Range(s1log) : a.i = b.i /\ a.id = b.id /\ BeginsYes(a.verdict)
    /\ \A a \in Range(s1log) : BeginsNo(a.verdict) =>
           /\ ~\E b \in Range(s2log) : b.i = a.i
           /\ ~Persisted(a.i)

\* a run is over in which one candidate got "no" and another reached stage 2
C7_Witness ==
    /\ ppc = "done"
    /\ \E a \in Range(s1log) : BeginsNo(a.verdict) /\ ~a.raised
    /\ s2log # <<>>

\* stage 1 failed for the call, or answered neither yes nor no
Unclassifiable(a) == a.raised \/ (~BeginsYes(a.verdict) /\ ~BeginsNo(a.verdict))

\* C8: when the stage-1 call raises or its answer begins neither with "yes"
\* nor with "no", the candidate gets no stage-2 call and no record, and the
\* loop has moved on past it.
C8_FailClosed ==
    \A a \in Range(s1log) : Unclassifiable(a) =>
        /\ ~\E b \in Range(s2log) : b.i = a.i
        /\ ~Persisted(a.i)
        /\ a.i < idx
        /\ ppc \in {"next", "stage2", "persist", "done"}

\* a run is over in which a stage-1 call raised, and a later candidate was
\* classified and got an answer that is neither yes nor no
C8_Witness ==
    /\ ppc = "done"
    /\ \E a, c \in Range(s1log) :
         /\ a.raised
         /\ c.i > a.i
         /\ ~c.raised /\ ~BeginsYes(c.verdict) /\ ~BeginsNo(c.verdict)

\* 3 raw candidates, two of them sharing an identifier, one of them with a
\* text under the minimum length
ThreeRawScenario ==
    /\ Len(raw) = 3
    /\ \A k \in 1..3 : raw[k].id # NoId
    /\ Cardinality({raw[k].id : k \in 1..3}) = 2
    /\ Cardinality({k \in 1..3 : TooShort(TextOf(raw[k].id))}) = 1

FirstSeen(id) ==
    CHOOSE p \in 1..Len(raw) : raw[p].id = id /\ \A q \in 1..(p - 1) : raw[q].id # id

\* C10: after any batches were saved in sequence to one file, the file holds
\* each identifier at most once, the tweet kept for an identifier is the
\* first one seen, and the file is in first-seen order.
C10_FirstSeenWins ==
    LET d == outFile.data IN
      /\ \A m, n \in 1..Len(d) : d[m].id = d[n].id => m = n
      /\ \A m \in 1..Len(d) :
           /\ \E p \in 1..Len(raw) : raw[p].id = d[m].id
           /\ d[m] = raw[FirstSeen(d[m].id)]
      /\ \A m, n \in 1..Len(d) : m < n => FirstSeen(d[m].id) < FirstSeen(d[n].id)

\* two batches were saved, the second one bringing again an identifier of
\* the first one, and the file holds two tweets
C10_Witness ==
    /\ queriesRun = 2
    /\ Len(outFile.data) >= 2
    /\ \E p, q \in 1..Len(raw) :
         /\ p < q
         /\ raw[p].id = raw[q].id /\ raw[p].id # NoId
         /\ raw[p].search_query # raw[q].search_query

\* ================================================== the query generator
\* generate_search_combinations of tweet_fire_search.py over US_STATES and
\* DAMAGE_KEYWORDS. A string is the sequence of its characters.
RECURSIVE Flatten(_)
\* the concatenation of a sequence of sequences
Flatten(ss) == IF ss = <<>> THEN <<>> ELSE Head(ss) \o Flatten(Tail(ss))

\* extensions that may pick an element already in the tuple
Extend_WithRepeats(p, n) == [i \in 1..n |-> Append(p, i)]

\* the tuples that itertools.permutations builds from the index tuple p by
\* one more position: every index not yet in p, in ascending order
Extend(p, n) ==
    LET Fresh(i) == i \notin Range(p)
        free == SelectSeq([i \in 1..n |-> i], Fresh)
    IN [k \in 1..Len(free) |-> Append(p, free[k])]

RECURSIVE IndexPerms(_, _)
\* itertools.permutations(range(n), r) as index tuples (1-based), in the
\* order it yields them: lexicographic in the positions
IndexPerms(n, r) ==
    IF r = 0 THEN << <<>> >>
    ELSE LET prev == IndexPerms(n, r - 1) IN
           Flatten([k \in 1..Len(prev) |-> Extend(prev[k], n)])

RECURSIVE Join(_, _)
\* ' '.join(combo) for the keywords at the indexes of tuple p
Join(kws, p) ==
    IF Len(p) = 1 THEN kws[p[1]]
    ELSE kws[p[1]] \o <<" ">> \o Join(kws, Tail(p))

\* f"{state} {' '.join(combo)}"
QueryText(state, kws, p) == state \o <<" ">> \o Join(kws, p)

\* one of the three loops: for state in US_STATES: for combo in
\* itertools.permutations(DAMAGE_KEYWORDS, r): append. Each query carries
\* where it comes from: the position of its state, r, and the rank of combo
ForLength(states, kws, r) ==
    LET perms == IndexPerms(Len(kws), r) IN
      Flatten([st \in 1..Len(states) |->
                 [k \in 1..Len(perms) |->
                    [loc |-> st, len |-> r, rank |-> k,
                     text |-> QueryText(states[st], kws, perms[k])]]])

\* one loop over the states with the three lengths inside it
Combinations_LocationMajor(states, kws) ==
    Flatten([st \in 1..Len(states) |->
               LET one == <<states[st]>>
                   Here(q) == [q EXCEPT !.loc = st]
                   qs == ForLength(one, kws, 1) \o ForLength(one, kws, 2)
                           \o ForLength(one, kws, 3)
               IN [k \in 1..Len(qs) |-> Here(qs[k])]])

\* the list 'combinations' at the return: the single-keyword loop, then the
\* two-keyword loop, then the three-keyword loop, each over all the states
Combinations(states, kws) ==
    ForLength(states, kws, 1) \o ForLength(states, kws, 2) \o ForLength(states, kws, 3)

\* generate_search_combinations(): the query strings
generate_search_combinations(states, kws) ==
    LET c == Combinations(states, kws) IN [i \in 1..Len(c) |-> c[i].text]

\* the strings of the model: location names and keywords, one of them of
\* two words
LocPool == {<<"T">>, <<"U">>}
KwPool == {<<"a">>, <<"b">>, <<"a", " ", "b">>}

ListsOver(pool, n) == UNION {[1..k -> pool] : k \in 0..n}

\* the module is loaded with some location list and some keyword list
InitQuery ==
    /\ locations \in ListsOver(LocPool, MaxLocs)
    /\ keywords \in ListsOver(KwPool, MaxKw)
    /\ combinations = <<>>
    /\ NotAnalysing
    /\ NotLoading
    /\ NotDeduplicating
    /\ ppc = "build"
    /\ cfg = NoCfg
    /\ exitStatus = Running
    /\ call = NoCall
    /\ run = 1
    /\ prevFile = Absent
    /\ file = Absent
    /\ active = {}
    /\ pc = [t \in Threads |-> "idle"]
    /\ entry = [t \in Threads |-> NoEntry]
    /\ data = [t \in Threads |-> <<>>]
    /\ before = [t \in Threads |-> Absent]
    /\ held = {}
    /\ hist = [t \in Threads |-> <<>>]
    /\ ncalls = 0
    /\ queriesRun = 0
    /\ raw = <<>>
    /\ outFile = Absent
    /\ tweets = <<>>
    /\ idx = 1
    /\ s1log = <<>>
    /\ s2log = <<>>
    /\ excel = <<>>
    /\ verified_count = 0

\* DAMAGE_SEARCH_COMBINATIONS = generate_search_combinations()
Generate ==
    /\ ppc = "build"
    /\ combinations' = Combinations(locations, keywords)
    /\ ppc' = "built"
    /\ UNCHANGED <<queriesRun, raw, outFile, tweets, idx, s1log, s2log, excel,
                   verified_count, storeVars, envVars, locations, keywords, parseVars, sourceVars, dedupVars>>

NextQuery == Generate

\* the query space is built for some location list and keyword list
SpecQuery == InitQuery /\ [][NextQuery]_vars

\* ---------------------------------------------------- the keyword source
\* the list that both except branches of load_damage_keywords return
DefaultKeywords ==
    <<
       \* "explosion damage"
       <<"e", "x", "p", "l", "o", "s", "i", "o", "n", " ", "d", "a", "m", "a", "g", "e">>,
       \* "lightning damage"
       <<"l", "i", "g", "h", "t", "n", "i", "n", "g", " ", "d", "a", "m", "a", "g", "e">>,
       \* "flood damage"
       <<"f", "l", "o", "o", "d", " ", "d", "a", "m", "a", "g", "e">>,
       \* "freezing damage"
       <<"f", "r", "e", "e", "z", "i", "n", "g", " ", "d", "a", "m", "a", "g", "e">>,
       \* "tornado damage"
       <<"t", "o", "r", "n", "a", "d", "o", " ", "d", "a", "m", "a", "g", "e">>,
       \* "storm damage"
       <<"s", "t", "o", "r", "m", " ", "d", "a", "m", "a", "g", "e">>,
       \* "hail damage"
       <<"h", "a", "i", "l", " ", "d", "a", "m", "a", "g", "e">>,
       \* "pipe burst damage"
       <<"p", "i", "p", "e", " ", "b", "u", "r", "s", "t", " ", "d", "a", "m", "a", "g", "e">>,
       \* "structure damage"
       <<"s", "t", "r", "u", "c", "t", "u", "r", "e", " ", "d", "a", "m", "a", "g", "e">>,
       \* "water damage"
       <<"w", "a", "t", "e", "r", " ", "d", "a", "m", "a", "g", "e">>,
       \* "smoke damage"
       <<"s", "m", "o", "k", "e", " ", "d", "a", "m", "a", "g", "e">>
    >>

\* load_damage_keywords(): open, json.load, data.get('damage_keywords', []).
\* Only FileNotFoundError and json.JSONDecodeError are caught; raised when
\* another exception leaves the function:
\*   "missing"    open raises FileNotFoundError
\*   "unreadable" open raises PermissionError or IsADirectoryError
\*   "notjson"    json.load raises JSONDecodeError
\*   "array"      the JSON value is a list: data.get raises AttributeError
\*   "nokey"      an object without 'damage_keywords': the default [] of get
\*   "object"     an object whose 'damage_keywords' is the list src.keywords
load_damage_keywords(src) ==
    CASE src.kind \in {"missing", "notjson"} ->
             [raised |-> FALSE, keywords |-> DefaultKeywords]
      [] src.kind = "nokey"  -> [raised |-> FALSE, keywords |-> <<>>]
      [] src.kind = "object" -> [raised |-> FALSE, keywords |-> src.keywords]
      [] OTHER               -> [raised |-> TRUE, keywords |-> <<>>]

\* the states of damage_keywords.json when the module is loaded
KeywordSources ==
    {[kind |-> k, keywords |-> <<>>] :
        k \in {"missing", "unreadable", "notjson", "array", "nokey"}} \cup
    {[kind |-> "object", keywords |-> l] : l \in ListsOver(KwPool, MaxKw)}

InitLoad ==
    /\ kwSource \in KeywordSources
    /\ locations \in ListsOver(LocPool, MaxLocs)
    /\ keywords = <<>>
    /\ combinations = <<>>
    /\ NotAnalysing
    /\ NotDeduplicating
    /\ ppc = "load"
    /\ cfg = NoCfg
    /\ exitStatus = Running
    /\ call = NoCall
    /\ run = 1
    /\ prevFile = Absent
    /\ file = Absent
    /\ active = {}
    /\ pc = [t \in Threads |-> "idle"]
    /\ entry = [t \in Threads |-> NoEntry]
    /\ data = [t \in Threads |-> <<>>]
    /\ before = [t \in Threads |-> Absent]
    /\ held = {}
    /\ hist = [t \in Threads |-> <<>>]
    /\ ncalls = 0
    /\ queriesRun = 0
    /\ raw = <<>>
    /\ outFile = Absent
    /\ tweets = <<>>
    /\ idx = 1
    /\ s1log = <<>>
    /\ s2log = <<>>
    /\ excel = <<>>
    /\ verified_count = 0

\* DAMAGE_KEYWORDS = load_damage_keywords(), run when the module is loaded:
\* an exception that leaves the function ends the process with a traceback
LoadKeywords ==
    /\ ppc = "load"
    /\ LET r == load_damage_keywords(kwSource) IN
         IF r.raised
         THEN ppc' = "crashed" /\ exitStatus' = 1 /\ keywords' = keywords
         ELSE ppc' = "build" /\ exitStatus' = exitStatus /\ keywords' = r.keywords
    /\ UNCHANGED <<queriesRun, raw, outFile, tweets, idx, s1log, s2log, excel,
                   verified_count, storeVars, cfg, call, run, prevFile,
                   locations, combinations, parseVars, sourceVars, dedupVars>>

NextLoad == LoadKeywords

\* the module is loaded: the keyword file is read; the query space is then
\* built from the list as in the specification of the query generator
SpecLoad == InitLoad /\ [][NextLoad]_vars

\* ================================================ the search call's claims
TweetIds(ts) == [i \in 1..Len(ts) |-> ts[i].id]

\* the requests of the last fetch_tweets call got exactly these statuses
CallSaw(sts) == call.returned /\ call.statuses = sts

\* the last response carried a list of tweets, every item a dict
WellFormedBody == call.body.kind = "list" /\ ~HasBadItem(call.body.tweets)

\* C11: when the first request of a fetch is answered 429 and the retry 200,
\* the call returns the tweets of the 200 response; when both are answered
\* 429 it returns the empty list, nothing is raised, and the main loop goes
\* on with the next query.
C11_RetryOnce ==
    /\ (CallSaw(<<RateLimited, StatusOK>>) /\ WellFormedBody)
          => TweetIds(call.result) = TweetIds(call.body.tweets)
    /\ CallSaw(<<RateLimited, RateLimited>>)
          => /\ call.result = <<>>
             /\ ppc \in {"loop", "req1", "summary"}
             /\ exitStatus # 1

C11_Witness ==
    /\ CallSaw(<<RateLimited, StatusOK>>)
    /\ WellFormedBody
    /\ call.result # <<>>
    /\ call.slept = RateLimitSleep

\* the last fetch_tweets call ended on a failure: an exception, a status
\* other than 200, or a 200 whose body is not an object holding a list of
\* tweet objects
QueryFailed ==
    /\ call.returned
    /\ \/ call.statuses[Len(call.statuses)] # StatusOK
       \/ call.body.kind \in {"notjson", "nokey"}
       \/ (call.body.kind = "list" /\ HasBadItem(call.body.tweets))

\* C12: whatever a search request ends with (a status other than 200, a
\* transport exception, a 200 with a malformed body), the query yields the
\* empty result and the run is not ended by it: the loop issues every
\* remaining query and reaches the final summary having run them all.
C12_NoQueryFatal ==
    cfg.script \in SearchScripts =>
      /\ QueryFailed => call.result = <<>>
      /\ ppc # "crashed"
      /\ ppc = "summary" => queriesRun = MaxQueries

\* C13: every search call returns: a started search run ends (on its final
\* summary, or on an exit), also when the collaborator never answers.
C13_SearchTerminates ==
    <>(cfg.script \in SearchScripts => ppc \in {"summary", "exited", "crashed"})

\* =========================================== the verification run's claims

\* what is left of the run: the candidates not yet done, then the steps
\* left for the current one
LoopMeasure ==
    CASE ppc = "start"   -> 4 * (MaxInput + 1) + 2
      [] ppc = "next"    -> 4 * (Len(tweets) + 1 - idx) + 1
      [] ppc = "stage2"  -> 4 * (Len(tweets) + 1 - idx)
      [] ppc = "persist" -> 4 * (Len(tweets) + 1 - idx) - 1
      [] OTHER           -> 0

\* C14: a verification run that has loaded its input always reaches the
\* summary: a failure while one candidate is processed (a classifier call
\* that fails, in either stage; an item that is no record; a failing write
\* of the live JSON or of the Excel file) ends that candidate only. The
\* candidates are taken in input order, one by one, and the run ends past
\* the last one. Termination is stated by a measure that every step of the
\* run decreases and by the run having a step to take until it is done.
C14_ReachesComplete ==
    /\ [][VerifyRun => LoopMeasure' < LoopMeasure]_vars
    /\ [][VerifyRun => idx' \in {idx, idx + 1}]_vars
    /\ [](VerifyRun /\ ppc = "crashed" => idx = 1 /\ tweets = <<>>)
    /\ [](VerifyRun /\ ppc = "done" => idx = Len(tweets) + 1)
    /\ [](VerifyRun /\ ppc \in {"next", "stage2", "persist"} => ENABLED NextMain)

C14_Witness ==
    /\ VerifyRun
    /\ ppc = "done"
    /\ Len(tweets) >= 2
    /\ tweets[1].id = BadItem
    /\ file.kind = "corrupt"
    /\ verified_count = 1

\* ===================================================== the start-up claims
\* a required credential or the input file is missing
ConfigMissing ==
    \/ (cfg.script \in SearchScripts /\ ~cfg.twitterKey)
    \/ (VerifyRun /\ (~cfg.openaiKey \/ cfg.input.kind = "absent"))

\* C20: when a required API credential or the input file is missing, the
\* process ends before the run starts: no search request and no classifier
\* request is issued, no output record is written, and the exit status is
\* not zero.
C20_ConfigFatal ==
    ConfigMissing =>
      /\ call = NoCall /\ ppc \notin {"req1", "req2", "sleep"}
      /\ s1log = <<>> /\ s2log = <<>>
      /\ file = Absent /\ outFile = Absent /\ excel = <<>>
      /\ ppc \in {"start", "exited"}
      /\ ppc = "exited" => exitStatus \notin {Running, 0}

\* ==================================================== the interruption claim
\* no call is in progress: every context is between calls or was stopped
AtRest == \A t \in active : pc[t] \in {"idle", "killed"}

\* C15: whenever the destination file is at rest, also where an external
\* interruption stopped the process during or between appends, the file is
\* a well-formed collection (or does not exist yet) that still holds every
\* record an earlier append has written.
C15_NoPartialRecord ==
    AtRest =>
      /\ file.kind \in {"absent", "json"}
      /\ \A c \in AllCalls : c.log = "OK" => c.id \in FileIds(file)

\* ======================================================= the re-run claim
\* C16: a run started again over the same candidates, after a completed or
\* an interrupted run, neither classifies nor persists again an identifier
\* that the earlier run has persisted.
C16_ReentryIdempotent ==
    run = 2 =>
      /\ \A k \in 1..Len(s1log) : s1log[k].id \notin FileIds(prevFile)
      /\ FileIds(file) \cap FileIds(prevFile) = {}

\* ================================================ the query space's claims
Built == ppc = "built"

\* the strings that generate_search_combinations returns for the inputs
Queries == generate_search_combinations(locations, keywords)

\* n + n(n-1) + n(n-1)(n-2)
TupleCount(n) == n + n * (n - 1) + n * (n - 1) * (n - 2)

\* C17: generate_search_combinations returns exactly
\* |locations| * (n + n(n-1) + n(n-1)(n-2)) queries for n keywords, for
\* every n >= 0; an empty keyword list gives the empty query space.
C17_QueryCount ==
    Built =>
      /\ Len(combinations) = Len(locations) * TupleCount(Len(keywords))
      /\ Len(Queries) = Len(combinations)
      /\ keywords = <<>> => combinations = <<>>

C17_Witness ==
    /\ Built
    /\ Len(keywords) = 3
    /\ Len(locations) = 2
    /\ Len(combinations) = 30

\* C18: whatever the location list and the keyword list loaded from the
\* keyword source, no query string is emitted twice.
C18_QueriesDistinct ==
    Built => \A i, j \in 1..Len(Queries) : Queries[i] = Queries[j] => i = j

\* C19 as stated: the order is location-major: every query of an earlier
\* location comes before every query of a later one; inside a location the
\* lengths ascend; inside a length the permutations keep their order.
C19_LocationMajor ==
    Built =>
      \A i, j \in 1..Len(combinations) :
        LET a == combinations[i]
            b == combinations[j]
        IN i < j =>
             \/ a.loc < b.loc
             \/ (a.loc = b.loc /\ a.len < b.len)
             \/ (a.loc = b.loc /\ a.len = b.len /\ a.rank < b.rank)

\* C19, amended: the order is length-major: every query of a shorter
\* combination length (of any location) comes before every query of a
\* longer one; inside a length the locations keep the order of the location
\* list; inside a location the permutations keep their generation order.
C19_LengthMajor ==
    Built =>
      \A i, j \in 1..Len(combinations) :
        LET a == combinations[i]
            b == combinations[j]
        IN i < j =>
             \/ a.len < b.len
             \/ (a.len = b.len /\ a.loc < b.loc)
             \/ (a.len = b.len /\ a.loc = b.loc /\ a.rank < b.rank)

\* two locations and two keywords: a two-keyword query of the first
\* location stands after a one-keyword query of the second
C19_Witness ==
    /\ Built
    /\ Len(locations) = 2
    /\ Len(keywords) >= 2
    /\ \E i, j \in 1..Len(combinations) :
         /\ i < j
         /\ combinations[i].loc = 2 /\ combinations[i].len = 1
         /\ combinations[j].loc = 1 /\ combinations[j].len = 2

\* ================================================= the classifier's claims
\* C21: the score that get_fire_analysis returns is an integer in 0..10
\* whatever the classifier answers, and so is the fire_related_score of
\* every record in the store.
C21_ScoreInRange ==
    /\ \A k \in 1..Len(s2log) : s2log[k].score \in 0..10
    /\ \A k \in 1..Len(file.data) : file.data[k].fire_related_score \in 0..10

\* ============================================ the verification loop's claims
\* len(text.strip()) of the candidate at position i of the input
TrimmedLenOf == [n \in Ids \cup {NoId} |-> Len(Strip(TweetText([id |-> n])))]
TrimmedLen(i) == TrimmedLenOf[tweets[i].id]

\* the candidate at position i has been handed to verify_fire_incident
Classified(i) == \E k \in 1..Len(s1log) : s1log[k].i = i

\* C24: a candidate whose trimmed text is shorter than 20 characters is
\* skipped before stage 1: no classifier call is made for it and no record
\* is stored for it; a candidate of exactly 20 trimmed characters (or more)
\* is classified.
C24_ShortSkipped ==
    ppc \in {"next", "stage2", "persist", "done"} =>
      /\ \A i \in 1..Len(tweets) : Classified(i) => TrimmedLen(i) >= 20
      /\ \A i \in 1..Len(tweets) : (i < idx /\ TrimmedLen(i) >= 20) => Classified(i)
      /\ \A i \in 1..Len(tweets) :
           TrimmedLen(i) < 20 => TweetId(tweets[i], i) \notin FileIds(file)

C24_Witness ==
    /\ ppc = "done"
    /\ \E i, j \in 1..Len(tweets) :
         /\ TrimmedLen(i) = 20 /\ Classified(i)
         /\ TrimmedLen(j) = 19 /\ ~Classified(j)

\* the candidate of stage-2 call k was accepted
AcceptedCall(k) == ScoreAccepted(s2log[k].score)

\* C29: persistence is incremental: when the loop stands between two
\* candidates (stage 1 of the next one not yet invoked), or at its end, the
\* store holds a record for every candidate accepted so far.
C29_Incremental ==
    ppc \in {"next", "done"} =>
      \A k \in 1..Len(s2log) :
        (AcceptedCall(k) /\ s2log[k].i < idx) => s2log[k].id \in FileIds(file)

\* a record is stored and a further candidate is still to be classified
C29_Witness ==
    /\ ppc = "next"
    /\ idx <= Len(tweets)
    /\ ~TooShort(TweetText(tweets[idx]))
    /\ \E k \in 1..Len(s2log) : AcceptedCall(k) /\ s2log[k].id \in FileIds(file)

\* ============================================== the search output's claims
\* the identifiers of the tweets in the search output file
OutIds(f) == {f.data[k].id : k \in 1..Len(f.data)}

\* C30: the identifiers in the search output file only grow during a run:
\* after every save_tweets_to_file call they are a superset of what the file
\* held before the call.
C30_OutputGrows == [][OutIds(outFile) \subseteq OutIds(outFile')]_vars

\* the second query's save found the file of the first and added to it
C30_Witness ==
    /\ queriesRun = 2
    /\ Len(raw) = 2
    /\ raw[1].search_query = 1
    /\ raw[2].search_query = 2
    /\ Len(outFile.data) = 2

\* ============================================ the missing identifier's claim
\* C25: a candidate without identifier is dropped: the deduplicator never
\* emits it, it is never handed to the classifier and no record is stored
\* for it.
C25_NoIdDropped ==
    /\ \A k \in 1..Len(outFile.data) : outFile.data[k].id # NoId
    /\ \A k \in 1..Len(s1log) : tweets[s1log[k].i].id # NoId
    /\ \A i \in 1..Len(tweets) :
         tweets[i].id = NoId => TweetId(tweets[i], i) \notin FileIds(file)

\* ==================================================== the counter's claim
\* C28: the verified count that the summary reports is the number of
\* records that the run wrote to the live JSON store.
C28_CountMatchesStore ==
    (VerifyRun /\ ppc = "done") => verified_count = Len(file.data)

\* ================================================ the request count's claim
\* the requests that the fetch_tweets call in progress (or the last one)
\* has issued: the answered ones and the one in flight
Requests ==
    Len(call.statuses) + IF ppc \in {"req1", "req2", "hung"} THEN 1 ELSE 0

\* C26: one search call issues at most two requests; the second is issued
\* only after a first response 429 and only once the 60-second cooldown is
\* over; there is never a third; when the first response is not 429 there
\* is no cooldown and exactly one request.
C26_AtMostTwoRequests ==
    cfg.script \in SearchScripts =>
      /\ Requests <= 2
      /\ Requests = 2 => (call.statuses[1] = RateLimited /\ call.slept = 60)
      /\ (call.statuses # <<>> /\ call.statuses[1] # RateLimited)
            => (Requests = 1 /\ call.slept = 0)
      /\ call.slept \in {0, 60}

C26_Witness ==
    /\ call.returned
    /\ Len(call.statuses) = 2
    /\ call.statuses[2] = RateLimited
    /\ call.slept = 60

\* ============================================== the unreadable store's claim
\* C27: when the destination file is absent or its content does not parse,
\* append takes the existing collection as empty and writes the new record:
\* afterwards the store holds exactly that record.
C27_AppendToUnreadable ==
    \A c \in AllCalls :
      c.before.kind \in {"absent", "corrupt"}
        => c.after = Json(<<Entry(c.id, MinFireScore, YesVerdict)>>)

\* ================================================== the analysis's claims
Analysed == ppc = "analysed"
Stripped == Strip(answer.content)

\* C22: the region that get_fire_analysis returns, and that the record then
\* stores, is a member of the fixed list of recognized regions or 'N/A',
\* whatever the service answered and also when the call failed.
C22_StateRecognized == Analysed => analysis.state \in valid_states \cup {NA}

\* the answer named a region that is not in the list, and 'N/A' was returned
C22_Witness ==
    /\ Analysed
    /\ ~answer.raises
    /\ state_match(Stripped).found
    /\ Strip(CollapseSpace(state_match(Stripped).group)) \notin valid_states \cup {NA}
    /\ ~Contains(state_match(Stripped).group, CountyWord)
    /\ analysis.state = NA

\* a Score, State or County line is missing from the answer or does not match
\* its pattern
Unparseable(a) ==
    \/ ~score_match(a).found
    \/ ~state_match(a).found
    \/ ~county_match(a).found

RegionValue ==
    IF state_match(Stripped).found
    THEN Strip(CollapseSpace(Strip(state_match(Stripped).group))) ELSE NA
SubRegionValue ==
    IF county_match(Stripped).found
    THEN Strip(CollapseSpace(Strip(county_match(Stripped).group))) ELSE NA

\* the region value holds the marker 'County' with some text before it
Contaminated ==
    /\ ~answer.raises
    /\ RegionValue # NA
    /\ Contains(RegionValue, CountyWord)
    /\ Strip(Split(RegionValue, CountyWord)[1]) # <<>>

\* C33: when the region value contains the marker 'County' (as in 'Arizona
\* County Pima'), the region becomes the text before the marker and is then
\* validated, and when the sub-region is 'N/A' the text after the marker
\* ('Pima') becomes the sub-region.
C33_CountyRepair ==
    (Analysed /\ Contaminated) =>
      LET parts == Split(RegionValue, CountyWord) IN
        /\ analysis.state = ValidateState(Strip(parts[1]))
        /\ (SubRegionValue = NA /\ Strip(parts[2]) # <<>>)
             => analysis.county = Strip(parts[2])

\* ================================================== the spreadsheet's claim
\* the entries of the live JSON file, none when the file is absent or unreadable
StoreEntries == IF file.kind = "json" THEN file.data ELSE <<>>

\* C32: the spreadsheet mirrors the JSON store: between two candidates of a
\* run and at its end, the rows of the spreadsheet are the entries of the live
\* JSON file, in the same order and with the same multiplicity.
C32_ExcelMirrorsJson ==
    (VerifyRun /\ run = 1 /\ ppc \in {"next", "done"}) => excel = StoreEntries

\* ================================================== the keyword source's claim
\* the keyword file is missing, unreadable, not JSON, or JSON of another shape
SourceFailed == kwSource.kind \in {"missing", "unreadable", "notjson", "array", "nokey"}

\* C31: when the keyword source fails to load for any reason (missing,
\* unreadable, invalid JSON, JSON of an unexpected shape), the fixed default
\* keyword list is used and the run goes on: it never ends the process.
C31_FallbackToDefault ==
    (SourceFailed /\ ppc # "load") =>
        /\ keywords = DefaultKeywords
        /\ exitStatus = Running

\* ================================================== the truncation's claim
\* the last response of the call was a 200 carrying a list
GotList ==
    /\ call.returned
    /\ call.statuses[Len(call.statuses)] = StatusOK
    /\ call.body.kind = "list"

\* C34: for a 200 response carrying a list of n candidates the search call
\* returns exactly the first min(max_results, n) of them, in the order of
\* the response; the result never has more than max_results entries.
C34_FirstMaxResults ==
    /\ Len(call.result) <= max_results
    /\ GotList =>
         LET n == Len(call.body.tweets) IN
           /\ Len(call.result) = IF n < max_results THEN n ELSE max_results
           /\ \A i \in 1..Len(call.result) :
                call.result[i].id = call.body.tweets[i].id

\* a response with more than max_results candidates, oldest first, was cut
C34_Witness ==
    /\ GotList
    /\ Len(call.body.tweets) > max_results
    /\ call.body.tweets[1].id > max_results
    /\ Len(call.result) = max_results

\* ================================================== the duplicates' claim
\* the lines of the rows that are left in the file
KeptLines == {sheet.rows[k].row : k \in 1..Len(sheet.rows)}

Symmetric(rel) == \A p \in rel : <<p[2], p[1]>> \in rel

SimilarRows(i, j) == is_similar(df[i].content, df[j].content, similar)

\* C35: remove_duplicate_content keeps the first occurrence and removes the
\* later duplicates: the rows left are rows of the file as read, in their
\* original order; the first row is left; no row left is similar to a later
\* row left (nor, for a symmetric relation, to an earlier one); every row
\* removed is similar to a row left that stood before it.
C35_FirstOccurrenceKept ==
    (ppc = "deduped" /\ dedupRet # "False") =>
      /\ \A k \in 1..Len(sheet.rows) :
           /\ sheet.rows[k].row \in 1..Len(df)
           /\ sheet.rows[k] = df[sheet.rows[k].row]
      /\ \A k, l \in 1..Len(sheet.rows) :
           k < l => sheet.rows[k].row < sheet.rows[l].row
      /\ df # <<>> => 1 \in KeptLines
      /\ \A i, j \in KeptLines :
           i < j => /\ ~SimilarRows(i, j)
                    /\ Symmetric(similar) => ~SimilarRows(j, i)
      /\ \A j \in (1..Len(df)) \ KeptLines :
           \E i \in KeptLines : i < j /\ SimilarRows(i, j)

\* a symmetric relation that is not transitive: the second row is similar
\* to the first and to the third, which are not similar; the second went
C35_Witness ==
    /\ ppc = "deduped"
    /\ Symmetric(similar)
    /\ Len(df) = 3
    /\ SimilarRows(1, 2) /\ SimilarRows(2, 3) /\ ~SimilarRows(1, 3)
    /\ KeptLines = {1, 3}
====
